---- MODULE Spec2Model ----
(***************************************************************************)
(* Model of the inventory game of src/app.py: a Streamlit script that is   *)
(* re-executed from top to bottom after every user interaction, over a     *)
(* session state that survives between the executions.  One action of the  *)
(* model is one user interaction followed by the whole re-execution.       *)
(*                                                                         *)
(* Money is kept exact: a cost is an integer number of 1/(365*100) rupee,  *)
(* the holding rate an integer number of hundredths.                       *)
(*                                                                         *)
(* The horizon and the demand range are scaled down: the source's          *)
(* "Total days" widget ranges over 5..120 with default 30 and the random   *)
(* demand defaults to 30..100; the model keeps their order (minimum below  *)
(* default below maximum) with the small values MIN_DAYS, DEFAULT_LOW and  *)
(* DEFAULT_HIGH below.                                                     *)
(*                                                                         *)
(* The module also holds the third variant of the game,                    *)
(* src/inventory_game.py, as a second session with its own variables and   *)
(* its own specification GameSpec; its 30 days and its demand range        *)
(* 30..99 are scaled down to TOTAL_DAYS and RANDINT_LOW..RANDINT_HIGH - 1. *)
(***************************************************************************)
EXTENDS Integers, Sequences, FiniteSets

\* ---------------------------------------------------------------- bounds
MIN_DAYS == 2
DEFAULT_DAYS == MIN_DAYS + 1
MAX_DAYS == DEFAULT_DAYS + 1
DEFAULT_LOW == 1
DEFAULT_HIGH == 2
MaxOrder == 3
MaxEdits == 2
TOTAL_DAYS == 4
RANDINT_LOW == 1
RANDINT_HIGH == 3

\* ------------------------------------------------------ program constants
DEFAULT_PRODUCT_COST == 100
DEFAULT_HOLDING_RATE == 20
DEFAULT_SHORTAGE_COST == 20
DEFAULT_SEED == 42
DaysPerYear == 365
RateScale == 100
PRODUCT_COST == 100
HOLDING_COST_RATE == 20
SHORTAGE_COST == 20
GAME_SEED == 42

CostScale == DaysPerYear * RateScale

\* ------------------------------------------------------- input domains
DayChoices == MIN_DAYS..MAX_DAYS
ProductCostChoices == {DEFAULT_PRODUCT_COST, DEFAULT_PRODUCT_COST + 1}
HoldingRateChoices == {DEFAULT_HOLDING_RATE, 0}
ShortageCostChoices == {DEFAULT_SHORTAGE_COST, DEFAULT_SHORTAGE_COST + 1}
SeedChoices == {DEFAULT_SEED, DEFAULT_SEED + 1}
LowChoices == {DEFAULT_LOW, DEFAULT_HIGH + 1}
HighChoices == {DEFAULT_HIGH, DEFAULT_HIGH + 1}
OrderChoices == {0, MaxOrder}

\* The uploaded file: none, a CSV without a 'demand' column, a CSV whose
\* demand column does not convert to int, or a CSV with an integer column.
NoFile == [kind |-> "none", vals |-> <<>>]
NoColumnFile == [kind |-> "nocol", vals |-> <<>>]
NonNumericFile == [kind |-> "nonnum", vals |-> <<>>]
LongColumn == [i \in 1..(MAX_DAYS + 1) |-> i % 3]
UploadColumns == {<<>>, <<2, -1>>, LongColumn}
FileChoices ==
    {NoFile, NoColumnFile, NonNumericFile}
        \cup {[kind |-> "ok", vals |-> c] : c \in UploadColumns}

\* session_state.demand: None, or a list
NoneDemand == [none |-> TRUE, seq |-> <<>>]
ListDemand(s) == [none |-> FALSE, seq |-> s]

VARIABLES
    day,          \* st.session_state.day
    inv_start,    \* st.session_state.inv_start
    records,      \* st.session_state.records
    demand,       \* st.session_state.demand
    params,       \* st.session_state.params
    seed,         \* st.session_state.seed
    rand_low,     \* st.session_state.rand_low
    rand_high,    \* st.session_state.rand_high
    up,           \* the file held by the file_uploader widget
    placeShown,   \* the Place Order button is on the page
    out,          \* what the last execution reported
    clicked,      \* the button the last execution saw pressed
    edits,        \* settings changes made so far in the session
    \* src/inventory_game.py
    player,       \* st.session_state.player
    game_day,     \* st.session_state.day
    inventory,    \* st.session_state.inventory
    orders,       \* st.session_state.orders
    demands,      \* st.session_state.demands
    costs,        \* st.session_state.costs
    screen        \* the page the last execution rendered

appVars == <<day, inv_start, records, demand, params, seed, rand_low, rand_high,
             up, placeShown, out, clicked, edits>>
gameVars == <<player, game_day, inventory, orders, demands, costs, screen>>
vars == <<day, inv_start, records, demand, params, seed, rand_low, rand_high,
          up, placeShown, out, clicked, edits,
          player, game_day, inventory, orders, demands, costs, screen>>

\* ------------------------------------------------------------ functions

Min(a, b) == IF a < b THEN a ELSE b
Max(a, b) == IF a > b THEN a ELSE b

\* the part of the session the game itself owns
Game(d, i, r, dem) == [day |-> d, inv_start |-> i, records |-> r, demand |-> dem]

reset_game_keeps_inventory(g) == [g EXCEPT !.day = 1, !.records = <<>>]
reset_game_clears_demand(g) ==
    [g EXCEPT !.day = 1, !.inv_start = 0, !.records = <<>>, !.demand = NoneDemand]
reset_game(g) == [g EXCEPT !.day = 1, !.inv_start = 0, !.records = <<>>]

set_demand_from_series(g, series) == [g EXCEPT !.demand = ListDemand(series)]

\* rng.integers(low, high + 1, size = n) of a generator seeded with sd:
\* a fixed function of (sd, low, high, n) with values in low..high.
\* numpy raises ValueError when low > high.
Generate(sd, low, high, n) ==
    [i \in 1..n |-> low + ((sd + i * i) % (high - low + 1))]

ensure_demand_raises(g, low, high) == g.demand.none /\ low > high

ensure_demand_default_seed(g, sd, low, high, n) ==
    IF g.demand.none
    THEN set_demand_from_series(g, Generate(DEFAULT_SEED, low, high, n))
    ELSE g
ensure_demand(g, sd, low, high, n) ==
    IF g.demand.none
    THEN set_demand_from_series(g, Generate(sd, low, high, n))
    ELSE g

holding_cost_per_day_yearly(product_cost, holding_rate) ==
    product_cost * holding_rate * DaysPerYear
holding_cost_per_day(product_cost, holding_rate) == product_cost * holding_rate

\* pad by repeating the last value (0 for an empty column) or truncate
Normalize_pads_zero(dser, n) ==
    IF Len(dser) < n
    THEN dser \o [i \in 1..(n - Len(dser)) |-> 0]
    ELSE IF Len(dser) > n
    THEN SubSeq(dser, 1, n)
    ELSE dser
Normalize(dser, n) ==
    IF Len(dser) < n
    THEN LET last == IF Len(dser) > 0 THEN dser[Len(dser)] ELSE 0
         IN  dser \o [i \in 1..(n - Len(dser)) |-> last]
    ELSE IF Len(dser) > n
    THEN SubSeq(dser, 1, n)
    ELSE dser

\* the 'Handle demand source' block when a file is present
handle_upload(g, file, n) ==
    IF file.kind = "ok"
    THEN set_demand_from_series(g, Normalize(file.vals, n))
    ELSE g

upload_messages(file, n) ==
    IF file.kind = "nocol" THEN {"error_no_demand_column"}
    ELSE IF file.kind = "nonnum" THEN {"error_parse_csv"}
    ELSE IF Len(file.vals) < n THEN {"warning_pad"}
    ELSE IF Len(file.vals) > n THEN {"info_truncate"}
    ELSE {}

\* the record of one day
day_record_no_floor(g, order_qty, p) ==
    LET today_demand == g.demand.seq[g.day]
        inv_before_sales == g.inv_start + order_qty
        sales == today_demand
        shortage_units == Max(0, today_demand - inv_before_sales)
        inv_end == inv_before_sales - sales
        hcost_day == holding_cost_per_day(p.product_cost, p.holding_rate)
        purchase_cost == order_qty * p.product_cost * CostScale
        holding_cost == inv_end * hcost_day
        shortage_penalty == shortage_units * p.shortage_cost * CostScale
    IN  [day |-> g.day, order |-> order_qty, demand |-> today_demand,
         sales |-> sales, shortage |-> shortage_units, inv_end |-> inv_end,
         purchase_cost |-> purchase_cost, holding_cost |-> holding_cost,
         shortage_cost |-> shortage_penalty,
         day_cost |-> purchase_cost + holding_cost + shortage_penalty]
day_record_shortage_ignores_stock(g, order_qty, p) ==
    LET today_demand == g.demand.seq[g.day]
        inv_before_sales == g.inv_start + order_qty
        sales == Min(inv_before_sales, today_demand)
        shortage_units == Max(0, today_demand - order_qty)
        inv_end == inv_before_sales - sales
        hcost_day == holding_cost_per_day(p.product_cost, p.holding_rate)
        purchase_cost == order_qty * p.product_cost * CostScale
        holding_cost == inv_end * hcost_day
        shortage_penalty == shortage_units * p.shortage_cost * CostScale
    IN  [day |-> g.day, order |-> order_qty, demand |-> today_demand,
         sales |-> sales, shortage |-> shortage_units, inv_end |-> inv_end,
         purchase_cost |-> purchase_cost, holding_cost |-> holding_cost,
         shortage_cost |-> shortage_penalty,
         day_cost |-> purchase_cost + holding_cost + shortage_penalty]
day_record_no_holding(g, order_qty, p) ==
    LET today_demand == g.demand.seq[g.day]
        inv_before_sales == g.inv_start + order_qty
        sales == Min(inv_before_sales, today_demand)
        shortage_units == Max(0, today_demand - inv_before_sales)
        inv_end == inv_before_sales - sales
        hcost_day == holding_cost_per_day(p.product_cost, p.holding_rate)
        purchase_cost == order_qty * p.product_cost * CostScale
        holding_cost == inv_end * hcost_day
        shortage_penalty == shortage_units * p.shortage_cost * CostScale
    IN  [day |-> g.day, order |-> order_qty, demand |-> today_demand,
         sales |-> sales, shortage |-> shortage_units, inv_end |-> inv_end,
         purchase_cost |-> purchase_cost, holding_cost |-> holding_cost,
         shortage_cost |-> shortage_penalty,
         day_cost |-> purchase_cost + shortage_penalty]
day_record(g, order_qty, p) ==
    LET today_demand == g.demand.seq[g.day]
        inv_before_sales == g.inv_start + order_qty
        sales == Min(inv_before_sales, today_demand)
        shortage_units == Max(0, today_demand - inv_before_sales)
        inv_end == inv_before_sales - sales
        hcost_day == holding_cost_per_day(p.product_cost, p.holding_rate)
        purchase_cost == order_qty * p.product_cost * CostScale
        holding_cost == inv_end * hcost_day
        shortage_penalty == shortage_units * p.shortage_cost * CostScale
    IN  [day |-> g.day, order |-> order_qty, demand |-> today_demand,
         sales |-> sales, shortage |-> shortage_units, inv_end |-> inv_end,
         purchase_cost |-> purchase_cost, holding_cost |-> holding_cost,
         shortage_cost |-> shortage_penalty,
         day_cost |-> purchase_cost + holding_cost + shortage_penalty]

\* st.session_state.demand[d_idx] raises: demand is None (TypeError) or
\* shorter than the day (IndexError)
demand_lookup_raises(g) == g.demand.none \/ g.day > Len(g.demand.seq)

\* the body of 'if place:'
place_order_backorder(g, order_qty, p) ==
    LET rec == day_record(g, order_qty, p)
    IN  [g EXCEPT !.records = Append(g.records, rec),
                  !.inv_start = g.inv_start + order_qty - rec.demand,
                  !.day = g.day + 1]
place_order_same_day(g, order_qty, p) ==
    LET rec == day_record(g, order_qty, p)
    IN  [g EXCEPT !.records = Append(g.records, rec),
                  !.inv_start = rec.inv_end]
place_order(g, order_qty, p) ==
    LET rec == day_record(g, order_qty, p)
    IN  [g EXCEPT !.records = Append(g.records, rec),
                  !.inv_start = rec.inv_end,
                  !.day = g.day + 1]

\* the summary: df["day_cost"].cumsum() and df["day_cost"].sum()
RECURSIVE cum_cost(_)
cum_cost(recs) ==
    IF recs = <<>> THEN <<>>
    ELSE LET n == Len(recs)
             before == cum_cost(SubSeq(recs, 1, n - 1))
         IN  Append(before,
                    (IF n = 1 THEN 0 ELSE before[n - 1]) + recs[n].day_cost)

RECURSIVE total_cost(_)
total_cost(recs) ==
    IF recs = <<>> THEN 0
    ELSE Head(recs).day_cost + total_cost(Tail(recs))

\* ------------------------------------------ src/inventory_game.py: functions

HOLDING_COST_PER_DAY == PRODUCT_COST * HOLDING_COST_RATE

\* np.random.seed(42); np.random.randint(30, 100, TOTAL_DAYS).tolist():
\* a fixed sequence with values in low..high - 1
GameDemands ==
    [i \in 1..TOTAL_DAYS |->
        RANDINT_LOW + ((GAME_SEED + i * i) % (RANDINT_HIGH - RANDINT_LOW))]

\* the text typed in the name field, as a sequence of characters
NameChoices == {<<>>, <<" ">>, <<"A">>, <<" ", "A", " ">>}
NoPlayer == [none |-> TRUE, name |-> <<>>]
Player(name) == [none |-> FALSE, name |-> name]

RECURSIVE lstrip(_)
lstrip(t) == IF t # <<>> /\ Head(t) = " " THEN lstrip(Tail(t)) ELSE t
RECURSIVE rstrip(_)
rstrip(t) ==
    IF t # <<>> /\ t[Len(t)] = " " THEN rstrip(SubSeq(t, 1, Len(t) - 1)) ELSE t
strip(t) == rstrip(lstrip(t))

\* the session after 'Initialize session state' on an empty session
game_session_init ==
    [player |-> NoPlayer, day |-> 1, inventory |-> 0, orders |-> <<>>,
     demands |-> GameDemands, costs |-> <<>>]

GameSession ==
    [player |-> player, day |-> game_day, inventory |-> inventory,
     orders |-> orders, demands |-> demands, costs |-> costs]

Abs(x) == IF x < 0 THEN 0 - x ELSE x

\* the body of 'if st.button("Submit Order")'
submit_order_floored(s, order_qty) ==
    LET dem == s.demands[s.day]
        new_inventory == Max(0, s.inventory + order_qty - dem)
        cost == order_qty * PRODUCT_COST * CostScale
                  + (IF new_inventory > 0 THEN new_inventory * HOLDING_COST_PER_DAY
                     ELSE IF new_inventory < 0
                     THEN Abs(new_inventory) * SHORTAGE_COST * CostScale
                     ELSE 0)
    IN  [s EXCEPT !.orders = Append(s.orders, order_qty),
                  !.inventory = new_inventory,
                  !.costs = Append(s.costs, cost),
                  !.day = s.day + 1]
submit_order(s, order_qty) ==
    LET dem == s.demands[s.day]
        new_inventory == s.inventory + order_qty - dem
        cost == order_qty * PRODUCT_COST * CostScale
                  + (IF new_inventory > 0 THEN new_inventory * HOLDING_COST_PER_DAY
                     ELSE IF new_inventory < 0
                     THEN Abs(new_inventory) * SHORTAGE_COST * CostScale
                     ELSE 0)
    IN  [s EXCEPT !.orders = Append(s.orders, order_qty),
                  !.inventory = new_inventory,
                  !.costs = Append(s.costs, cost),
                  !.day = s.day + 1]

\* Play Again: the six keys are deleted and the rerun initialises them
play_again_keeps_inventory(s) == [game_session_init EXCEPT !.inventory = s.inventory]
play_again(s) == game_session_init

\* the Game Over table: pd.DataFrame raises ValueError when its columns
\* differ in length
game_over_raises(s) == Len(s.orders) # TOTAL_DAYS

\* the inventory series recomputed in the Game Over branch
RECURSIVE inv_series(_, _)
inv_series(ords, dems) ==
    IF ords = <<>> \/ dems = <<>> THEN <<>>
    ELSE LET n == Min(Len(ords), Len(dems))
             before == inv_series(SubSeq(ords, 1, n - 1), SubSeq(dems, 1, n - 1))
         IN  Append(before,
                    (IF n = 1 THEN 0 ELSE before[n - 1]) + ords[n] - dems[n])

\* the page an execution renders for the session s
render(s) ==
    IF s.player.none THEN "name"
    ELSE IF s.day <= TOTAL_DAYS THEN "play"
    ELSE IF game_over_raises(s) THEN "crash"
    ELSE "over"

GameInit ==
    /\ player = game_session_init.player
    /\ game_day = game_session_init.day
    /\ inventory = game_session_init.inventory
    /\ orders = game_session_init.orders
    /\ demands = game_session_init.demands
    /\ costs = game_session_init.costs
    /\ screen = "name"

\* ------------------------------------------------------------ the script

Init ==
    /\ day = 1
    /\ inv_start = 0
    /\ records = <<>>
    /\ params = [days |-> DEFAULT_DAYS, product_cost |-> DEFAULT_PRODUCT_COST,
                 holding_rate |-> DEFAULT_HOLDING_RATE,
                 shortage_cost |-> DEFAULT_SHORTAGE_COST]
    /\ seed = DEFAULT_SEED
    /\ rand_low = DEFAULT_LOW
    /\ rand_high = DEFAULT_HIGH
    /\ demand = ListDemand(Generate(DEFAULT_SEED, DEFAULT_LOW, DEFAULT_HIGH, DEFAULT_DAYS))
    /\ up = NoFile
    /\ placeShown = TRUE
    /\ out = {}
    /\ clicked = "none"
    /\ edits = 0
    /\ GameInit

\* the values the widgets hold when nothing is touched
Widgets ==
    [days |-> params.days, product_cost |-> params.product_cost,
     holding_rate |-> params.holding_rate, shortage_cost |-> params.shortage_cost,
     up |-> up, seed |-> seed, rand_low |-> rand_low, rand_high |-> rand_high]

\* the game after the sidebar buttons
after_buttons_regen_keeps_game(g, btn) ==
    IF btn = "reset" THEN reset_game(g)
    ELSE IF btn = "regen" THEN [g EXCEPT !.demand = NoneDemand]
    ELSE g
after_buttons(g, btn) ==
    IF btn = "reset" THEN reset_game(g)
    ELSE IF btn = "regen" THEN reset_game([g EXCEPT !.demand = NoneDemand])
    ELSE g

\* the game after the 'Handle demand source' block
after_demand_source(g, w) ==
    IF w.up.kind # "none"
    THEN handle_upload(g, w.up, w.days)
    ELSE IF ensure_demand_raises(g, w.rand_low, w.rand_high)
    THEN g
    ELSE ensure_demand(g, w.seed, w.rand_low, w.rand_high, w.days)

\* One execution of the script with the widgets holding w, the button btn
\* pressed ("none", "reset", "regen" or "place") and order_qty in the order
\* field.
Run(w, btn, order_qty) ==
    LET p  == [days |-> w.days, product_cost |-> w.product_cost,
               holding_rate |-> w.holding_rate, shortage_cost |-> w.shortage_cost]
        g0 == Game(day, inv_start, records, demand)
        g1 == after_buttons(g0, btn)
        stop == w.up.kind = "none" /\ ensure_demand_raises(g1, w.rand_low, w.rand_high)
        g2 == after_demand_source(g1, w)
        msg == IF w.up.kind # "none" THEN upload_messages(w.up, w.days) ELSE {}
        loop == g2.day <= p.days
        placed == loop /\ btn = "place"
        raises == placed /\ demand_lookup_raises(g2)
        g3 == IF placed /\ ~raises THEN place_order(g2, order_qty, p) ELSE g2
    IN  /\ UNCHANGED gameVars
        /\ params' = p
        /\ seed' = w.seed
        /\ rand_low' = w.rand_low
        /\ rand_high' = w.rand_high
        /\ up' = w.up
        /\ clicked' = btn
        /\ IF stop
           THEN /\ day' = g1.day
                /\ inv_start' = g1.inv_start
                /\ records' = g1.records
                /\ demand' = g1.demand
                /\ placeShown' = FALSE
                /\ out' = {"exception"}
           ELSE /\ day' = g3.day
                /\ inv_start' = g3.inv_start
                /\ records' = g3.records
                /\ demand' = g3.demand
                /\ placeShown' = loop
                /\ out' = msg \cup (IF raises THEN {"exception"} ELSE {})
                             \cup (IF placed /\ ~raises THEN {"success"} ELSE {})

Edit(w) ==
    /\ edits < MaxEdits
    /\ edits' = edits + 1
    /\ Run(w, "none", 0)

SetDays(d) == d # params.days /\ Edit([Widgets EXCEPT !.days = d])
SetProductCost(c) == c # params.product_cost /\ Edit([Widgets EXCEPT !.product_cost = c])
SetHoldingRate(r) == r # params.holding_rate /\ Edit([Widgets EXCEPT !.holding_rate = r])
SetShortageCost(c) == c # params.shortage_cost /\ Edit([Widgets EXCEPT !.shortage_cost = c])
SetSeed(s) == s # seed /\ Edit([Widgets EXCEPT !.seed = s])
SetRandLow(l) == l # rand_low /\ Edit([Widgets EXCEPT !.rand_low = l])
SetRandHigh(h) == h # rand_high /\ Edit([Widgets EXCEPT !.rand_high = h])
Upload(f) == f # up /\ Edit([Widgets EXCEPT !.up = f])

ResetGame == Run(Widgets, "reset", 0) /\ UNCHANGED edits
RegenerateDemand == Run(Widgets, "regen", 0) /\ UNCHANGED edits
PlaceOrder(q) == placeShown /\ Run(Widgets, "place", q) /\ UNCHANGED edits
\* any interaction that changes no setting, such as typing in the order field
Refresh == Run(Widgets, "none", 0) /\ UNCHANGED edits

Next ==
    \/ \E d \in DayChoices : SetDays(d)
    \/ \E c \in ProductCostChoices : SetProductCost(c)
    \/ \E r \in HoldingRateChoices : SetHoldingRate(r)
    \/ \E c \in ShortageCostChoices : SetShortageCost(c)
    \/ \E s \in SeedChoices : SetSeed(s)
    \/ \E l \in LowChoices : SetRandLow(l)
    \/ \E h \in HighChoices : SetRandHigh(h)
    \/ \E f \in FileChoices : Upload(f)
    \/ ResetGame
    \/ RegenerateDemand
    \/ \E q \in OrderChoices : PlaceOrder(q)
    \/ Refresh

Spec == Init /\ [][Next]_vars

\* ------------------------------------------ src/inventory_game.py: the script

\* the session s and the page pg are what an execution leaves behind
GameRun(s, pg) ==
    /\ player' = s.player
    /\ game_day' = s.day
    /\ inventory' = s.inventory
    /\ orders' = s.orders
    /\ demands' = s.demands
    /\ costs' = s.costs
    /\ screen' = pg

\* Start Game pressed with name in the name field: the gate sets the player
\* and stops, or, the player being set already, the game page is rendered
StartGame(name) ==
    /\ screen = "name"
    /\ UNCHANGED appVars
    /\ IF player.none
       THEN IF strip(name) # <<>>
            THEN GameRun([GameSession EXCEPT !.player = Player(name)], "name")
            ELSE GameRun(GameSession, "name")
       ELSE GameRun(GameSession, render(GameSession))

\* Submit Order pressed with order_qty in the order field, then the rerun
SubmitOrder(order_qty) ==
    /\ screen = "play"
    /\ UNCHANGED appVars
    /\ IF player.none
       THEN GameRun(GameSession, "name")
       ELSE IF game_day <= TOTAL_DAYS
       THEN LET s == submit_order(GameSession, order_qty)
            IN  GameRun(s, render(s))
       ELSE GameRun(GameSession, render(GameSession))

\* Play Again pressed on the Game Over page, then the rerun
PlayAgain ==
    /\ screen = "over"
    /\ UNCHANGED appVars
    /\ IF player.none
       THEN GameRun(GameSession, "name")
       ELSE IF game_day <= TOTAL_DAYS \/ game_over_raises(GameSession)
       THEN GameRun(GameSession, render(GameSession))
       ELSE LET s == play_again(GameSession)
            IN  GameRun(s, render(s))

\* any other interaction, such as typing in a field
GameRefresh == GameRun(GameSession, render(GameSession)) /\ UNCHANGED appVars

GameOrderChoices == 0..MaxOrder

GameNext ==
    \/ \E n \in NameChoices : StartGame(n)
    \/ \E q \in GameOrderChoices : SubmitOrder(q)
    \/ PlayAgain
    \/ GameRefresh

GameSpec == Init /\ [][GameNext]_vars

\* ------------------------------------------------------------ properties

Complete == day = params.days + 1
Active == day <= params.days
AnyPlaceOrder == \E q \in OrderChoices : PlaceOrder(q)

\* the inventory a record started from: 0 for the first record of a
\* playthrough, otherwise the ending inventory of the record before it
starting_inventory(i) == IF i = 1 THEN 0 ELSE records[i - 1].inv_end

\* C1: no backorders. In every reachable state the starting inventory is
\* >= 0 and every ledger record has ending inventory >= 0, whatever the
\* orders and the demand values (negative uploaded demand included).
C1_NoBackorders ==
    /\ inv_start >= 0
    /\ \A i \in DOMAIN records : records[i].inv_end >= 0

\* a ledger holding a day with lost sales and a day with negative demand
C1_Witness ==
    \E i, j \in DOMAIN records :
        /\ records[i].shortage > 0
        /\ records[i].inv_end = 0
        /\ records[j].demand < 0

\* C2: conservation. For every ledger record, starting inventory plus the
\* order equals units sold plus ending inventory, the starting inventory
\* being 0 for the first record and the previous ending inventory otherwise.
C2_Conservation ==
    \A i \in DOMAIN records :
        starting_inventory(i) + records[i].order
            = records[i].sales + records[i].inv_end

\* a ledger whose second day sold from stock carried over from the first
C2_Witness ==
    /\ Len(records) >= 2
    /\ records[1].inv_end > 0
    /\ records[2].sales > 0
    /\ records[2].order = 0

\* C3: terminal rejection. After exactly horizon_days advances the state is
\* Complete, and a further Place Order is rejected with a completion error
\* and leaves the ledger, the day and the starting inventory unchanged.
C3_TerminalRejection ==
    /\ [](Len(records) = params.days => Complete)
    /\ [][(Complete /\ AnyPlaceOrder) =>
            /\ "error_game_complete" \in out'
            /\ records' = records
            /\ day' = day
            /\ inv_start' = inv_start]_vars

\* C4: in every reachable state the day lies in 1..horizon_days + 1 for the
\* currently configured horizon.
C4_DayInRange == day >= 1 /\ day <= params.days + 1

\* C5: whenever an advance is possible the demand sequence is defined and
\* has exactly horizon_days entries.
C5_DemandLength ==
    Active => (~demand.none /\ Len(demand.seq) = params.days)

\* C6: every ledger record for day k holds the demand the current demand
\* sequence has at day k.
C6_LedgerMatchesDemand ==
    \A i \in DOMAIN records :
        /\ ~demand.none
        /\ i <= Len(demand.seq)
        /\ records[i].demand = demand.seq[i]

\* the sequence resolved from the current seed, bounds and horizon
Resolved == ListDemand(Generate(seed, rand_low, rand_high, params.days))
FullReset == day = 1 /\ inv_start = 0 /\ records = <<>>
GenerationChange == seed' # seed \/ rand_low' # rand_low \/ rand_high' # rand_high

C8_Reset ==
    /\ [](ENABLED ResetGame)
    /\ [][ResetGame => (FullReset' /\ params' = params /\ demand' = demand)]_vars

\* Reset Game pressed while an uploaded file is held, the demand being the
\* normalised upload and not the sequence the seed resolves to
C8_Witness ==
    /\ clicked = "reset"
    /\ FullReset
    /\ up.kind = "ok"
    /\ demand = ListDemand(Normalize(up.vals, params.days))
    /\ demand # Resolved

\* C9: while the ledger is non-empty no change of the horizon or of a cost
\* parameter takes effect unless the ledger is reset with it.
C9_ConfigImmutable ==
    [][(records # <<>> /\ params' # params) => FullReset']_vars

\* C10: a Complete state stays Complete under every operation other than a
\* reset, and Reset Game from Complete leads to Active at day 1.
C10_CompleteIsStable ==
    /\ [][(Complete /\ ~(ResetGame \/ RegenerateDemand)) => ~Active']_vars
    /\ [][(Complete /\ ResetGame) => (day' = 1 /\ Active')]_vars

\* a Place Order that was carried out: the ledger grew
Advanced == Len(records') = Len(records) + 1
LastRecord == records[Len(records)]

\* C11: normalisation of an uploaded column of n >= 1 values against the
\* horizon h: the demand has exactly h entries; it starts with the first
\* min(n, h) uploaded values, and every entry after the n-th is the last
\* uploaded value.
C11_Normalization ==
    (up.kind = "ok" /\ Len(up.vals) >= 1) =>
        LET n == Len(up.vals)
            h == params.days
        IN  /\ ~demand.none
            /\ Len(demand.seq) = h
            /\ \A i \in 1..h :
                 demand.seq[i] = IF i <= n THEN up.vals[i] ELSE up.vals[n]

\* a padded upload next to which the zero-padding of an empty column would
\* differ: a short column ending in a non-zero value
C11_Witness ==
    /\ up.kind = "ok"
    /\ Len(up.vals) >= 1
    /\ Len(up.vals) < params.days
    /\ up.vals[Len(up.vals)] # 0
    /\ demand.seq[params.days] = up.vals[Len(up.vals)]

\* C12: an upload that is empty, lacks the demand column, or holds a
\* negative or non-numeric entry is reported as an error, and no padded-empty
\* or negative value enters the demand sequence or the ledger.
BadUpload ==
    \/ up.kind \in {"nocol", "nonnum"}
    \/ up.kind = "ok" /\ (up.vals = <<>> \/ \E i \in DOMAIN up.vals : up.vals[i] < 0)
C12_DemandSourceError ==
    /\ BadUpload => out \cap {"error_no_demand_column", "error_parse_csv"} # {}
    /\ \A i \in DOMAIN demand.seq : demand.seq[i] >= 0
    /\ \A i \in DOMAIN records : records[i].demand >= 0
    /\ (up.kind = "ok" /\ up.vals = <<>>) => demand # ListDemand(Normalize(<<>>, params.days))

C14_LostSales ==
    /\ \A i \in DOMAIN records :
         LET available == starting_inventory(i) + records[i].order
             d == records[i].demand
         IN  /\ records[i].sales = Min(available, d)
             /\ records[i].shortage = Max(0, d - starting_inventory(i) - records[i].order)
             /\ records[i].inv_end = available - records[i].sales
             /\ records[i].inv_end = Max(available - d, 0)
    /\ inv_start = IF records = <<>> THEN 0 ELSE LastRecord.inv_end

\* a day with unmet demand followed by a day that started from zero and
\* sold its whole order
C14_Witness ==
    /\ Len(records) >= 2
    /\ records[1].shortage > 0
    /\ records[2].order > 0
    /\ records[2].sales = Min(records[2].order, records[2].demand)
    /\ inv_start = records[Len(records)].inv_end

\* C17: ledger coherence. The ledger has day - 1 records, the i-th record is
\* that of day i, the starting inventory is the last ending inventory (0
\* for an empty ledger); a Place Order that is carried out appends exactly
\* one record, and the ledger only ever changes by such an append or by
\* being emptied.
C17_LedgerCoherence ==
    /\ [](/\ Len(records) = day - 1
          /\ \A i \in DOMAIN records : records[i].day = i
          /\ (records = <<>> => inv_start = 0)
          /\ (records # <<>> => inv_start = LastRecord.inv_end))
    /\ [][(AnyPlaceOrder /\ "success" \in out') =>
            (Advanced /\ SubSeq(records', 1, Len(records)) = records)]_vars
    /\ [][records' # records =>
            \/ records' = <<>>
            \/ Advanced /\ SubSeq(records', 1, Len(records)) = records]_vars

\* a second order has just been recorded
C17_Witness ==
    /\ clicked = "place"
    /\ "success" \in out
    /\ Len(records) >= 2
    /\ day = Len(records) + 1
    /\ LastRecord.inv_end > 0

\* C18: in every record units sold plus shortage equals the demand, whether
\* or not the day ended with zero inventory.
C18_SalesPlusShortage ==
    \A i \in DOMAIN records :
        records[i].sales + records[i].shortage = records[i].demand

\* a ledger with a day that ended with stock, after a day that sold from
\* carried-over stock, and a day with a shortage
C18_Witness ==
    /\ \E i \in DOMAIN records :
         records[i].inv_end > 0 /\ starting_inventory(i) > 0 /\ records[i].sales > 0
    /\ \E i \in DOMAIN records : records[i].shortage > 0

\* ------------------------------------------------- the example scenario
\* A session in which the player uploads the demand 50, 50, 50, sets the
\* horizon and places orders of 60, 0 and 50, with the default costs.
ExampleDemand == <<50, 50, 50>>
ExampleOrderSeq == <<60, 0, 50>>
ExampleFile == [kind |-> "ok", vals |-> ExampleDemand]
ExampleOrders == {ExampleOrderSeq[i] : i \in DOMAIN ExampleOrderSeq}

ExampleNext ==
    \/ \E d \in DayChoices : SetDays(d)
    \/ Upload(ExampleFile)
    \/ \E q \in ExampleOrders : PlaceOrder(q)
    \/ ResetGame

ExampleSpec == Init /\ [][ExampleNext]_vars

\* the first k days of the ledger are the example's
ExampleDays(k) ==
    /\ Len(records) >= k
    /\ \A i \in 1..k :
         records[i].order = ExampleOrderSeq[i] /\ records[i].demand = ExampleDemand[i]

DetNext ==
    \/ \E d \in DayChoices : SetDays(d)
    \/ \E s \in SeedChoices : SetSeed(s)
    \/ \E l \in LowChoices : SetRandLow(l)
    \/ \E h \in HighChoices : SetRandHigh(h)
    \/ ResetGame
    \/ RegenerateDemand
    \/ \E q \in OrderChoices : PlaceOrder(q)
    \/ Refresh

DetSpec == Init /\ [][DetNext]_vars

\* the game of a fresh session that holds the demand dem and has placed
\* the first k orders of ords
RECURSIVE FreshPlay(_, _, _, _)
FreshPlay(dem, ords, p, k) ==
    IF k = 0
    THEN Game(1, 0, <<>>, ListDemand(dem))
    ELSE place_order(FreshPlay(dem, ords, p, k - 1), ords[k], p)

OrdersPlaced == [i \in DOMAIN records |-> records[i].order]

\* C16: determinism. Whatever happened earlier in the session, a demand
\* that is generated is the sequence of the current (seed, low, high,
\* horizon), and the ledger, the day and the starting inventory are those of
\* a fresh session with the same demand, cost parameters and orders.
C16_Determinism ==
    /\ [][(demand' # demand /\ ~demand'.none) => demand' = Resolved']_vars
    /\ [](~demand.none =>
            LET fresh == FreshPlay(demand.seq, OrdersPlaced, params, Len(records))
            IN  /\ records = fresh.records
                /\ day = fresh.day
                /\ inv_start = fresh.inv_start)

\* a later playthrough, on a demand regenerated from a changed seed
C16_Witness ==
    /\ seed # DEFAULT_SEED
    /\ rand_low <= rand_high
    /\ demand = Resolved
    /\ demand # ListDemand(Generate(DEFAULT_SEED, rand_low, rand_high, params.days))
    /\ Len(records) >= 2
    /\ records[1].inv_end > 0

\* ------------------------------------------ src/inventory_game.py: properties

RECURSIVE SumSeq(_)
SumSeq(t) == IF t = <<>> THEN 0 ELSE Head(t) + SumSeq(Tail(t))

\* the signed inventory after the first k orders
SignedInventory(k) ==
    SumSeq(SubSeq(orders, 1, k)) - SumSeq(SubSeq(demands, 1, k))

\* the record the engine of src/app.py writes on day k when it is given
\* the same orders, demands and costs from its initial state
GameCosts ==
    [days |-> TOTAL_DAYS, product_cost |-> PRODUCT_COST,
     holding_rate |-> HOLDING_COST_RATE, shortage_cost |-> SHORTAGE_COST]
RECURSIVE EngineRecord(_)
EngineRecord(k) ==
    LET start == IF k = 1 THEN 0 ELSE EngineRecord(k - 1).inv_end
    IN  day_record(Game(k, start, <<>>, ListDemand(demands)), orders[k], GameCosts)

HadShortfall(k) == \E j \in 1..k : SignedInventory(j) < 0

\* C19: the third variant keeps a signed, unfloored inventory: after k
\* orders it is the sum of the orders minus the sum of the first k demands;
\* a day costs order * PRODUCT_COST plus inventory * HOLDING_COST_PER_DAY
\* when the new inventory is positive or |inventory| * SHORTAGE_COST when
\* it is negative. Against the lost-sales engine on the same orders and
\* demands, inventory and day cost agree up to and including the first day
\* with a shortfall (where the engine's inventory is 0 and the variant's
\* negative), and the inventory differs from then on.
C19_SignedInventory ==
    LET k == Len(orders)
    IN  /\ inventory = SignedInventory(k)
        /\ \A i \in 1..k :
             costs[i] = orders[i] * PRODUCT_COST * CostScale
                          + (IF SignedInventory(i) > 0
                             THEN SignedInventory(i) * HOLDING_COST_PER_DAY
                             ELSE Abs(SignedInventory(i)) * SHORTAGE_COST * CostScale)
        /\ \A i \in 1..k :
             /\ ~HadShortfall(i) => SignedInventory(i) = EngineRecord(i).inv_end
             /\ HadShortfall(i) => SignedInventory(i) < EngineRecord(i).inv_end
             /\ ~HadShortfall(i - 1) => costs[i] = EngineRecord(i).day_cost

\* a shortage followed by a further day on which the deficit carried over
\* makes inventory and cost differ from the lost-sales engine's
C19_Witness ==
    /\ Len(orders) >= 2
    /\ SignedInventory(1) < 0
    /\ inventory < 0
    /\ EngineRecord(Len(orders)).inv_end > 0
    /\ costs[Len(orders)] # EngineRecord(Len(orders)).day_cost

AnySubmitOrder == \E q \in GameOrderChoices : SubmitOrder(q)

\* C20: in the third variant no order is submitted while the player is
\* unset; the day lies in 1..TOTAL_DAYS + 1; orders and costs have day - 1
\* entries; the Game Over page is reached only with TOTAL_DAYS orders, its
\* table is built without error and the last recomputed inventory is the
\* running inventory; Play Again returns to the initial session.
C20_GameSession ==
    /\ [](/\ game_day >= 1 /\ game_day <= TOTAL_DAYS + 1
          /\ Len(orders) = game_day - 1
          /\ Len(costs) = game_day - 1
          /\ screen # "crash"
          /\ (player.none => (screen = "name" /\ orders = <<>>))
          /\ (screen = "over" =>
                /\ Len(orders) = TOTAL_DAYS
                /\ Len(SubSeq(demands, 1, Len(orders))) = TOTAL_DAYS
                /\ inv_series(orders, SubSeq(demands, 1, Len(orders)))[TOTAL_DAYS]
                     = inventory))
    /\ [][(player.none \/ player'.none) => orders' = <<>>]_vars
    /\ [][(AnySubmitOrder /\ orders' # orders) => (~player.none /\ screen = "play")]_vars
    /\ [][PlayAgain => (GameInit' /\ demands' = demands)]_vars

\* the Game Over page after a game that ran into a deficit
C20_Witness ==
    /\ screen = "over"
    /\ ~player.none
    /\ Len(orders) = TOTAL_DAYS
    /\ inventory < 0
    /\ game_day = TOTAL_DAYS + 1

====
